---- MODULE Spec2Model ----
(***************************************************************************)
(* Turn-taking session pipeline of the voice server (backend/main.py and   *)
(* backend/services/agent_engine.py): the receive loop with its voice      *)
(* activity segmenter, the per-utterance pipeline tasks, the generation    *)
(* engine's event stream and the outbound queue with its drain task.       *)
(* Time is in milliseconds; a text is a sequence of one-character strings. *)
(***************************************************************************)
EXTENDS Integers, Sequences, FiniteSets, TLC

\* ---------------------------------------------------------------- constants
SAMPLE_RATE == 16000
VOICE_THRESHOLD == 300
SILENCE_THRESHOLD == 150
\* SILENCE_DURATION_LIMIT = 1.5 (seconds), here in milliseconds
SILENCE_DURATION_LIMIT == 1500
MIN_BUFFER_SIZE == 8000
\* context["history"][-6:]
HISTORY_KEEP == 6
\* Python's None for silence_start, which otherwise holds a time >= 0
None == -1

\* ------------------------------------------------------------------- bounds
\* the clock's step and its last instant
TickMs == 500
MaxTime == 3000
\* the last instant of the clock in the runs that count turns
HistTime == 6000
\* task slots: pipeline tasks that exist at the same time
MaxTasks == 2
\* frames the utterance buffer may hold
MaxBuf == 2
\* events still waiting in the outbound queue when a producer adds to it
MaxBacklog == 0
\* chunks one generation stream delivers
MaxDeltas == 1
\* audio chunks one synthesis response delivers
MaxChunks == 1
\* completed turns that are counted
MaxTurns == 5
\* sample magnitudes of a quiet, a middle and a loud frame
QuietAmp == 50
MidAmp == 200
LoudAmp == 1000
\* the frames of the round-trip scenario
RTLoud == 20
RTQuiet == 20
\* deltas of a long generation stream, and audio chunks of a long response
LongStream == 2
LongRead == 2

\* ------------------------------------------------------------------ helpers
Min(a, b) == IF a < b THEN a ELSE b

RECURSIVE ISqrtIn(_, _, _)
\* largest r in lo..hi with r*r <= n (lo*lo <= n is assumed)
ISqrtIn(n, lo, hi) ==
  IF lo >= hi THEN lo
  ELSE LET mid == (lo + hi + 1) \div 2
       IN IF mid * mid <= n THEN ISqrtIn(n, mid, hi) ELSE ISqrtIn(n, lo, mid - 1)

\* int(math.sqrt(x)) for x >= 0
ISqrt(n) == ISqrtIn(n, 0, 32768)

\* A frame is a chunk of nbytes bytes whose 16-bit samples all have magnitude amp.
Frame(amp, nbytes) == [amp |-> amp, nbytes |-> nbytes]

\* calculate_rms: 0 for an empty chunk, 0 when struct.unpack raises (odd length),
\* else int(sqrt(sum(s*s) / count))
calculate_rms(chunk) ==
  IF chunk.nbytes = 0 THEN 0
  ELSE LET count == chunk.nbytes \div 2
       IN IF 2 * count # chunk.nbytes THEN 0
          ELSE \* sum(s * s for s in shorts) / count, count samples of magnitude amp
               ISqrt(chunk.amp * chunk.amp)

RECURSIVE SumBytes(_)
\* len(buffer): the bytes of the frames it holds
SumBytes(buf) == IF buf = <<>> THEN 0 ELSE Head(buf).nbytes + SumBytes(Tail(buf))

\* a trim that keeps the oldest n entries: the newest turn is the one lost
KeepOldest(s, n) == IF Len(s) <= n THEN s ELSE SubSeq(s, 1, n)

\* s[-n:]
LastN(s, n) == IF Len(s) <= n THEN s ELSE SubSeq(s, Len(s) - n + 1, Len(s))

Whitespace == {" ", "\n"}
\* a test of the transcript without strip(): only the empty text ends the turn
IsEmptyOnly(text) == text = <<>>

\* not text.strip()
IsBlank(text) == \A i \in 1..Len(text) : text[i] \in Whitespace

\* a boundary test that knows the full stop only
HasPunctDotOnly(content) == \E i \in 1..Len(content) : content[i] = "."

\* any(punct in content for punct in [".", "!", "؟", "\n", "،"])
Punct == {".", "!", "?", "\n", ","}
HasPunct(content) == \E i \in 1..Len(content) : content[i] \in Punct

\* -------------------------------------------------------------------- state
VARIABLES
  now,            \* time.time(), in ms
  loop_pc,        \* the receive loop of websocket_endpoint: "running" | "closed"
  buffer,         \* bytearray of the utterance: the frames appended, in order
  silence_start,  \* None or the time the trailing silence started
  is_speaking,    \* the segmenter's flag
  processing,     \* SessionState.processing
  speaking,       \* SessionState.speaking
  history,        \* context["history"]
  prompt_ok,      \* whether _build_system_prompt succeeds on this tenant's database
  send_queue,     \* asyncio.Queue of outbound events
  sender_pc,      \* websocket_sender: "waiting" | "sending" | "exited"
  sender_msg,     \* the event websocket_sender holds between get() and send
  tasks,          \* the process_audio_buffer tasks, by slot
  unwritten,      \* observer: events enqueued and not yet written to the transport
  inorder,        \* observer: every write so far was the oldest unwritten event
  turns,          \* observer: invocations that reached the history append (saturating)
  last,           \* observer: the message the receive loop handled last
  quiet_since,    \* observer: None or the time of the first of the frames the
                  \* segmenter has seen at or below SILENCE_THRESHOLD without a
                  \* louder one since
  fed,            \* frames of the round-trip scenario received so far
  env,            \* what connection set-up finds: the tenant's database file, the
                  \* generation provider's key, the context store
  tenant_engine,  \* "none" or the database the session's GroqEngine was built on
  memory_cache,   \* MemoryManager._memory_cache[tenant_user]: NoEntry or a context
  context_src,    \* observer: where get_user_context took the session's context from
  peer            \* another session of the same process: its flags, segmenter,
                  \* queue and receive loop

vars == <<now, loop_pc, buffer, silence_start, is_speaking, processing, speaking,
          history, prompt_ok, send_queue, sender_pc, sender_msg, tasks,
          unwritten, inorder, turns, last, quiet_since, fed, env, tenant_engine,
          memory_cache, context_src, peer>>

segmenter == <<buffer, silence_start, is_speaking>>
flags == <<processing, speaking>>
queue == <<send_queue, unwritten>>
drain == <<sender_pc, sender_msg, inorder>>
\* what connection set-up fixes for a session, and the other session
fixed == <<prompt_ok, env, tenant_engine, memory_cache, context_src, peer>>
\* everything of this session and of the process, but the other session
own == <<now, loop_pc, buffer, silence_start, is_speaking, processing, speaking,
         history, prompt_ok, send_queue, sender_pc, sender_msg, tasks, unwritten,
         inorder, turns, last, quiet_since, fed, env, tenant_engine,
         memory_cache, context_src>>
\* what only the receive loop changes
inbound == <<loop_pc, segmenter, last, quiet_since, fed>>

Slots == 1..MaxTasks

\* an outbound event; `by` is the slot of the invocation that enqueued it (0: the
\* receive loop). An audio chunk is the raw bytes message, type "bytes".
Ev(type, state, content, by) ==
  [type |-> type, state |-> state, content |-> content, by |-> by]

NoEvent == Ev("none", "", <<>>, 0)

FreeTask ==
  [pc |-> "free", audio |-> <<>>, text |-> <<>>, collected_text |-> <<>>,
   first_audio |-> TRUE, text_buffer |-> <<>>, spoken |-> <<>>, ndeltas |-> 0,
   events |-> <<>>, outcome |-> "", late |-> FALSE]

RECURSIVE Tags(_)
\* what the client sees of each event: the state of a state event, else the type
Tags(evs) ==
  IF evs = <<>> THEN <<>>
  ELSE <<IF Head(evs).type = "state" THEN Head(evs).state ELSE Head(evs).type>>
       \o Tags(Tail(evs))

\* a finished invocation keeps what it enqueued and how it ended
DoneTask(tk, evs, outcome) ==
  [FreeTask EXCEPT !.pc = "done", !.events = tk.events \o Tags(evs),
                   !.outcome = outcome]

\* the observer's record of an inbound message: its kind, its argument (a frame's
\* loudness), what the receive loop did with it, and a bit that alternates
Step(op, arg, note) == [op |-> op, arg |-> arg, note |-> note, seq |-> 1 - last.seq]

\* ------------------------------------------------------- connection set-up
\* a context: a dict with or without the key "history", or what is not a dict
Dict(has_history, h) == [type |-> "dict", has_history |-> has_history, history |-> h]
NoneValue == [type |-> "None", has_history |-> FALSE, history |-> <<>>]
\* no entry under the key in _memory_cache
NoEntry == [type |-> "absent", has_history |-> FALSE, history |-> <<>>]

\* the exchange a stored or cached context remembers
Remembered == <<[role |-> "user", content |-> <<"a">>],
                [role |-> "assistant", content |-> <<"a">>]>>

\* what doc.to_dict() may return for a document that exists
Documents == {NoneValue, Dict(FALSE, <<>>), Dict(TRUE, Remembered)}

create_default_context == Dict(TRUE, <<>>)

\* _load_tenant_db: the database the engine is built on. A missing file is
\* replaced by the default tenant's; any exception (a file that cannot be read or
\* parsed, the default file missing too) gives the empty database
load_tenant_db(db, default_db) ==
  IF db = "found" THEN "own"
  ELSE IF db = "unreadable" THEN "empty"
  ELSE IF default_db = "found" THEN "default"
  ELSE "empty"

\* GroqEngine(tenant_id) returns: _init_groq finds the key, and the loaded data
\* and its persona are mappings (the empty database always is)
GroqEngineCreated(db, shape, key) == key /\ (db = "empty" \/ shape = "mapping")

\* self._memory_cache.get(cache_key, self._create_default_context())
CacheGet(cached) ==
  IF cached.type = "dict"
  THEN [raised |-> FALSE, value |-> cached, from |-> "cache", entry |-> cached]
  ELSE [raised |-> FALSE, value |-> create_default_context, from |-> "default",
        entry |-> cached]

\* doc.to_dict() or {}
ToDictOrEmpty(doc) ==
  IF doc.type = "None" \/ doc = Dict(FALSE, <<>>) THEN Dict(FALSE, <<>>) ELSE doc

\* a get_user_context without its except clause
GetUserContextUnguarded(store, doc, cached) ==
  IF store = "unavailable" THEN CacheGet(cached)
  ELSE IF store = "exists"
       THEN [raised |-> FALSE, value |-> ToDictOrEmpty(doc), from |-> "store",
             entry |-> ToDictOrEmpty(doc)]
  ELSE IF store = "absent"
       THEN [raised |-> FALSE, value |-> create_default_context,
             from |-> "default", entry |-> cached]
  ELSE [raised |-> TRUE, value |-> NoneValue, from |-> "none", entry |-> cached]

\* get_user_context: the value returned (or that it raised), where the value came
\* from, and the cache entry afterwards. store is what the store does with the
\* read, doc what the document holds, cached the entry under the key
get_user_context(store, doc, cached) ==
  IF store = "unavailable" THEN CacheGet(cached)
  ELSE IF store = "exists"
       THEN LET data == ToDictOrEmpty(doc) IN
            [raised |-> FALSE, value |-> data, from |-> "store", entry |-> data]
  ELSE IF store = "absent"
       THEN [raised |-> FALSE, value |-> create_default_context,
             from |-> "default", entry |-> cached]
  ELSE CacheGet(cached)

\* the set-up a running session of the other specifications went through
Resolved ==
  [db |-> "found", default_db |-> "found", shape |-> "mapping", key |-> TRUE,
   store |-> "unavailable", doc |-> NoneValue]

\* the other session, connected and idle. Its context is followed from its call
\* of get_user_context on: context is "none" before, then "own" (a dict this
\* session does not hold) or "shared" (the dict that is this session's context);
\* entry tells whether that call put its dict under the user's key in the cache
PeerInit ==
  [loop_pc |-> "running", processing |-> FALSE, speaking |-> FALSE,
   buffer |-> <<>>, silence_start |-> None, is_speaking |-> FALSE,
   send_queue |-> <<>>, pc |-> "none", context |-> "none", entry |-> FALSE]

Init ==
  /\ now = 0
  /\ loop_pc = "running"
  /\ env = Resolved
  /\ tenant_engine = "own"
  /\ memory_cache = NoEntry
  /\ context_src = "default"
  /\ peer = PeerInit
  /\ buffer = <<>>
  /\ silence_start = None
  /\ is_speaking = FALSE
  /\ processing = FALSE
  /\ speaking = FALSE
  /\ history = <<>>
  /\ prompt_ok \in BOOLEAN
  /\ send_queue = <<>>
  /\ sender_pc = "waiting"
  /\ sender_msg = NoEvent
  /\ tasks = [t \in Slots |-> FreeTask]
  /\ unwritten = <<>>
  /\ inorder = TRUE
  /\ turns = 0
  /\ last = [op |-> "init", arg |-> 0, note |-> "", seq |-> 0]
  /\ quiet_since = None
  /\ fed = 0

\* websocket_endpoint up to its receive loop: the engine is created, or the
\* connection is closed with 4001; the context is fetched and updated (an
\* exception of get_user_context, or of update on a value that is no dict,
\* would leave the coroutine before any queue or task exists);
\* the queue, the drain task, the state and the segmenter are created
Connect ==
  LET db == load_tenant_db(env.db, env.default_db)
      got == get_user_context(env.store, env.doc, memory_cache)
  IN
  /\ loop_pc = "connecting"
  /\ IF ~GroqEngineCreated(db, env.shape, env.key)
     THEN /\ loop_pc' = "refused"
          /\ last' = Step("connect", 0, "4001")
          /\ UNCHANGED <<tenant_engine, memory_cache, context_src, history,
                         prompt_ok, sender_pc>>
     ELSE /\ tenant_engine' = db
          /\ prompt_ok' = (db = "empty" \/ prompt_ok)
          /\ memory_cache' = got.entry
          /\ context_src' = got.from
          /\ IF got.raised \/ got.value.type # "dict"
             THEN /\ loop_pc' = "crashed"
                  /\ last' = Step("connect", 0, "raised")
                  /\ UNCHANGED <<history, sender_pc>>
             ELSE /\ loop_pc' = "running"
                  /\ last' = Step("connect", 0, "")
                  /\ history' = got.value.history
                  /\ sender_pc' = "waiting"
  /\ UNCHANGED <<now, segmenter, quiet_since, fed, flags, queue, sender_msg,
                 inorder, tasks, turns, env, peer>>

\* a put that waits for a drain task that has exited
PutToLiveDrain(evs) ==
  /\ sender_pc # "exited"
  /\ evs = <<>> \/ Len(send_queue) <= MaxBacklog
  /\ send_queue' = send_queue \o evs
  /\ unwritten' = unwritten \o evs

\* await send_queue.put(e) for each e of evs: the queue is unbounded, so put never
\* suspends and the events are appended in one step. The model explores the
\* producers' steps taken with at most MaxBacklog events waiting, except that a
\* pipeline task is never held up by a queue the ended drain task no longer empties.
Put(evs) ==
  /\ IF evs = <<>> \/ Len(send_queue) <= MaxBacklog
     THEN TRUE
     ELSE sender_pc = "exited" /\ evs[1].by # 0
  /\ send_queue' = send_queue \o evs
  /\ unwritten' = unwritten \o evs

\* the clock advances by d
Tick(d) ==
  /\ now' = now + d
  /\ UNCHANGED <<inbound, flags, history, fixed, queue, drain, tasks, turns>>

\* ------------------------------------------------------------- receive loop
\* the slot asyncio.create_task takes: the lowest one holding no live task
IsVacant(t) == tasks[t].pc \in {"free", "done"}
NewSlot == CHOOSE t \in Slots : IsVacant(t) /\ \A u \in Slots : IsVacant(u) => t <= u

\* a task that is handed the buffer itself, which the loop clears in the same step
CreateTaskShared(audio) ==
  tasks' = [tasks EXCEPT ![NewSlot] =
              [FreeTask EXCEPT !.pc = "created", !.audio = <<>>, !.late = processing]]

\* asyncio.create_task(process_audio_buffer(send_queue, buffer[:], ...)): the task
\* owns a copy of the buffer and has not run yet. Until it runs, late records
\* whether processing was set when the boundary was reached.
CreateTask(audio) ==
  tasks' = [tasks EXCEPT ![NewSlot] =
              [FreeTask EXCEPT !.pc = "created", !.audio = audio, !.late = processing]]

\* a receive loop without the half-duplex gate
MicAlwaysOpen == TRUE

\* `not state.speaking`: the half-duplex gate of the receive loop
MicOpen == ~speaking

\* the time the running silence is measured from: silence_start, set to now when unset
SilenceOrigin == IF silence_start = None THEN now ELSE silence_start

\* a boundary test that needs more than the limit
BoundaryStrict == now - SilenceOrigin > SILENCE_DURATION_LIMIT

\* time.time() - silence_start >= SILENCE_DURATION_LIMIT
BoundaryReached == now - SilenceOrigin >= SILENCE_DURATION_LIMIT

\* a boundary that dispatches whatever was buffered
DispatchAny == TRUE

\* len(buffer) >= MIN_BUFFER_SIZE
Dispatchable == SumBytes(buffer) >= MIN_BUFFER_SIZE

\* an onset branch that lets the silence timer run on
VoicedKeepsTimer(chunk) ==
  [is_speaking |-> TRUE, silence_start |-> silence_start,
   buffer |-> Append(buffer, chunk)]

\* an onset branch that puts the frame in front of the buffered ones
VoicedPrepends(chunk) ==
  [is_speaking |-> TRUE, silence_start |-> None, buffer |-> <<chunk>> \o buffer]

\* the branch rms > VOICE_THRESHOLD: the segmenter after the frame
Voiced(chunk) ==
  [is_speaking |-> TRUE, silence_start |-> None, buffer |-> Append(buffer, chunk)]

\* a silence test on the onset threshold: no hysteresis band
TrailingBelowOnset(rms) == rms <= VOICE_THRESHOLD /\ is_speaking

\* the branch `elif rms <= SILENCE_THRESHOLD and is_speaking`
Trailing(rms) == rms <= SILENCE_THRESHOLD /\ is_speaking

\* a binary message: the segmenter
RecvFrame(chunk) ==
  LET rms == calculate_rms(chunk) IN
  /\ loop_pc = "running"
  /\ UNCHANGED <<now, loop_pc, flags, history, fixed, queue, drain, turns>>
  /\ IF ~MicOpen
     THEN \* the message has no "text" either: nothing is done
          /\ UNCHANGED <<segmenter, tasks, quiet_since>>
          /\ last' = Step("frame", rms, "dropped")
     ELSE /\ quiet_since' = IF rms > SILENCE_THRESHOLD THEN None
                            ELSE IF quiet_since = None THEN now ELSE quiet_since
          /\ IF rms > VOICE_THRESHOLD
             THEN /\ is_speaking' = Voiced(chunk).is_speaking
                  /\ silence_start' = Voiced(chunk).silence_start
                  /\ buffer' = Voiced(chunk).buffer
                  /\ UNCHANGED tasks
                  /\ last' = Step("frame", rms, "buffered")
             ELSE IF Trailing(rms)
             THEN IF BoundaryReached
                  THEN /\ IF Dispatchable
                          THEN /\ \E t \in Slots : IsVacant(t)
                               /\ CreateTask(buffer)
                               /\ last' = Step("frame", rms, "dispatch")
                          ELSE /\ UNCHANGED tasks
                               /\ last' = Step("frame", rms, "discard")
                       /\ buffer' = <<>>
                       /\ is_speaking' = FALSE
                       /\ silence_start' = None
                  ELSE /\ silence_start' = SilenceOrigin
                       /\ UNCHANGED <<buffer, is_speaking, tasks>>
                       /\ last' = Step("frame", rms, "silence")
             ELSE /\ UNCHANGED <<segmenter, tasks>>
                  /\ last' = Step("frame", rms, "ignored")

\* a keepalive that answers only while no pipeline runs
PingReplyWhenIdle == IF processing THEN <<>> ELSE <<Ev("pong", "", <<>>, 0)>>

\* what the ping branch enqueues
PingReply == <<Ev("pong", "", <<>>, 0)>>

\* a text dispatch whose playback_done branch answers without clearing speaking
RecvTextNoReopen(kind) ==
  /\ loop_pc = "running"
  /\ UNCHANGED <<now, loop_pc, segmenter, quiet_since, fed, flags, history,
                 fixed, drain, tasks, turns>>
  /\ last' = Step("text", 0, kind)
  /\ IF kind = "playback_done"
     THEN Put(<<Ev("state", "listening", <<>>, 0)>>)
     ELSE IF kind = "ping"
     THEN Put(PingReply)
     ELSE UNCHANGED queue

\* a text message: json.loads and the dispatch on data["type"]; kind is
\* "playback_done", "ping", "other" (another type) or "invalid" (json.loads raises)
RecvText(kind) ==
  /\ loop_pc = "running"
  /\ UNCHANGED <<now, loop_pc, segmenter, quiet_since, fed, processing, history,
                 fixed, drain, tasks, turns>>
  /\ last' = Step("text", 0, kind)
  /\ IF kind = "playback_done"
     THEN /\ speaking' = FALSE
          /\ Put(<<Ev("state", "listening", <<>>, 0)>>)
     ELSE IF kind = "ping"
     THEN /\ Put(PingReply)
          /\ UNCHANGED speaking
     ELSE UNCHANGED <<speaking, queue>>

\* a teardown that leaves the drain task running
RecvDisconnectKeepsDrain ==
  /\ loop_pc = "running"
  /\ loop_pc' = "closed"
  /\ last' = Step("disconnect", 0, "")
  /\ UNCHANGED <<now, segmenter, quiet_since, fed, flags, history, fixed,
                 queue, drain, tasks, turns>>

\* websocket.disconnect (or ws.receive raising): the loop ends and the finally
\* clause cancels the drain task, which drops the event it holds
RecvDisconnect ==
  /\ loop_pc = "running"
  /\ loop_pc' = "closed"
  /\ sender_pc' = "exited"
  /\ sender_msg' = NoEvent
  /\ last' = Step("disconnect", 0, "")
  /\ UNCHANGED <<now, segmenter, quiet_since, fed, flags, history, fixed,
                 queue, inorder, tasks, turns>>

\* ----------------------------------------------------- process_audio_buffer
Thinking(t) == Ev("state", "thinking", <<>>, t)
Listening(t) == Ev("state", "listening", <<>>, t)
UserText(t, text) == Ev("user_text", "", text, t)
TextDelta(t, content) == Ev("text", "", content, t)
AudioStart(t) == Ev("audio_start", "", <<>>, t)
AudioChunk(t) == Ev("bytes", "", <<"pcm">>, t)
AudioEnd(t) == Ev("audio_end", "", <<>>, t)

Turn(role, content) == [role |-> role, content |-> content]

\* a gate that looks at speaking only
GateSpeakingOnly == speaking

\* `if state.processing or state.speaking: return`
Gate == processing \/ speaking

\* a gate inside the try block: the return runs the finally clause
TaskStartGateInTry(t) ==
  LET tk == tasks[t] IN
  /\ tk.pc = "created"
  /\ UNCHANGED <<now, inbound, speaking, history, fixed, drain, turns>>
  /\ IF Gate
     THEN /\ tasks' = [tasks EXCEPT ![t] = DoneTask(tk, <<>>, "rejected")]
          /\ processing' = FALSE
          /\ UNCHANGED queue
     ELSE /\ processing' = TRUE
          /\ Put(<<Thinking(t)>>)
          /\ tasks' = [tasks EXCEPT ![t] = [tk EXCEPT !.pc = "transcribing",
                                               !.events = Tags(<<Thinking(t)>>),
                                               !.late = FALSE]]

\* the first step of a task: the gate, processing = True, state(thinking), and the
\* call of transcribe_audio, which suspends in run_in_executor
TaskStart(t) ==
  LET tk == tasks[t] IN
  /\ tk.pc = "created"
  /\ UNCHANGED <<now, inbound, speaking, history, fixed, drain, turns>>
  /\ IF Gate
     THEN /\ tasks' = [tasks EXCEPT ![t] = DoneTask(tk, <<>>, "rejected")]
          /\ UNCHANGED <<processing, queue>>
     ELSE /\ processing' = TRUE
          /\ Put(<<Thinking(t)>>)
          /\ tasks' = [tasks EXCEPT ![t] = [tk EXCEPT !.pc = "transcribing",
                                               !.events = Tags(<<Thinking(t)>>),
                                               !.late = FALSE]]

\* an exception path without the finally clause: processing stays set
TranscribeRaiseNoFinally(t) ==
  LET tk == tasks[t] IN
  /\ tk.pc = "transcribing"
  /\ speaking' = FALSE
  /\ tasks' = [tasks EXCEPT ![t] = DoneTask(tk, <<>>, "error")]
  /\ UNCHANGED <<now, inbound, processing, history, fixed, queue, drain, turns>>

\* transcribe_audio raises (run_in_executor cannot submit the call): except sets
\* speaking = False, finally sets processing = False
TranscribeRaise(t) ==
  LET tk == tasks[t] IN
  /\ tk.pc = "transcribing"
  /\ speaking' = FALSE
  /\ processing' = FALSE
  /\ tasks' = [tasks EXCEPT ![t] = DoneTask(tk, <<>>, "error")]
  /\ UNCHANGED <<now, inbound, history, fixed, queue, drain, turns>>

\* transcribe_audio returns text (empty when the provider failed). A blank text ends
\* the turn; otherwise user_text is enqueued and process_request is entered: it
\* builds the prompt (outside its try) and suspends in chat.completions.create.
\* The audio is not read after the transcription and is dropped from the record.
TranscribeReturn(t, text) ==
  LET tk == tasks[t] IN
  /\ tk.pc = "transcribing"
  /\ UNCHANGED <<now, inbound, history, fixed, drain, turns>>
  /\ IF IsBlank(text)
     THEN /\ processing' = FALSE
          /\ Put(<<Listening(t)>>)
          /\ tasks' = [tasks EXCEPT ![t] = DoneTask(tk, <<Listening(t)>>, "empty")]
          /\ UNCHANGED speaking
     ELSE IF ~prompt_ok
     THEN /\ Put(<<UserText(t, text)>>)
          /\ speaking' = FALSE
          /\ processing' = FALSE
          /\ tasks' = [tasks EXCEPT ![t] = DoneTask(tk, <<UserText(t, text)>>, "error")]
     ELSE /\ Put(<<UserText(t, text)>>)
          /\ tasks' = [tasks EXCEPT ![t] =
                         [tk EXCEPT !.pc = "llm_create", !.text = text,
                                    !.audio = <<>>,
                                    !.events = @ \o Tags(<<UserText(t, text)>>)]]
          /\ UNCHANGED flags

\* what the provider call in _transcribe_sync does: it raises, or returns a text
ProviderFailure == [raised |-> TRUE, text |-> <<>>]
Heard(text) == [raised |-> FALSE, text |-> text]

\* a _transcribe_sync without its except clause
TranscribeSyncUncaught(result) == result

\* _transcribe_sync: `return res.text or ""`, and `return ""` on any exception
transcribe_sync(result) ==
  IF result.raised THEN Heard(<<>>) ELSE Heard(result.text)

\* the executor's call of _transcribe_sync ends and transcribe_audio resumes: it
\* returns the text, or raises what the call raised
SttReturn(t, result) ==
  IF transcribe_sync(result).raised
  THEN TranscribeRaise(t)
  ELSE TranscribeReturn(t, transcribe_sync(result).text)

\* a persistence step that appends the assistant entry before the user entry
FinalizeAssistantFirst(t, evs, outcome) ==
  LET tk == tasks[t] IN
  /\ history' = LastN(history \o <<Turn("assistant", tk.collected_text),
                                   Turn("user", tk.text)>>,
                      HISTORY_KEEP)
  /\ Put(evs \o <<AudioEnd(t)>>)
  /\ processing' = FALSE
  /\ turns' = Min(turns + 1, MaxTurns)
  /\ tasks' = [tasks EXCEPT ![t] = DoneTask(tk, evs \o <<AudioEnd(t)>>, outcome)]

\* the end of process_audio_buffer after the event loop: the history append and
\* trim, audio_end (after the events evs of the same step) and the finally clause;
\* outcome records whether the engine's stream ended or raised, which
\* process_audio_buffer does not distinguish
FinalizeAs(t, evs, outcome) ==
  LET tk == tasks[t] IN
  /\ history' = LastN(history \o <<Turn("user", tk.text),
                                   Turn("assistant", tk.collected_text)>>,
                      HISTORY_KEEP)
  /\ Put(evs \o <<AudioEnd(t)>>)
  /\ processing' = FALSE
  /\ turns' = Min(turns + 1, MaxTurns)
  /\ tasks' = [tasks EXCEPT ![t] = DoneTask(tk, evs \o <<AudioEnd(t)>>, outcome)]

\* a completion whose finally clause leaves processing set
FinalizeLeavesProcessing(t, evs) ==
  LET tk == tasks[t] IN
  /\ history' = LastN(history \o <<Turn("user", tk.text),
                                   Turn("assistant", tk.collected_text)>>,
                      HISTORY_KEEP)
  /\ Put(evs \o <<AudioEnd(t)>>)
  /\ UNCHANGED processing
  /\ turns' = Min(turns + 1, MaxTurns)
  /\ tasks' = [tasks EXCEPT ![t] = DoneTask(tk, evs \o <<AudioEnd(t)>>, "completed")]

Finalize(t, evs) == FinalizeAs(t, evs, "completed")

\* chat.completions.create returns the stream; the generator suspends on its
\* first chunk
LlmCreateReturn(t) ==
  LET tk == tasks[t] IN
  /\ tk.pc = "llm_create"
  /\ tasks' = [tasks EXCEPT ![t] = [tk EXCEPT !.pc = "streaming"]]
  /\ UNCHANGED <<now, inbound, flags, history, fixed, queue, drain, turns>>

\* stop_after_attempt(3) of the retry decorator of process_request
MaxAttempts == 3

\* the attempt of process_request an invocation in generation is in: the decorated
\* function is an async generator function, so the call the retry wrapper guards
\* only creates the generator and never raises, and the generator absorbs its own
\* exceptions: there is no second attempt
Attempt(t) == 1

\* the event process_request yields from its except clause
EngineError == [type |-> "error", content |-> <<"sorry">>]

\* what process_audio_buffer enqueues for an event of the engine that is not the
\* first audio: the audio bytes, a text event, and nothing for any other type
Forwarded(t, event) ==
  IF event.type = "audio" THEN <<AudioChunk(t)>>
  ELSE IF event.type = "text" THEN <<TextDelta(t, event.content)>>
  ELSE <<>>

\* create or the stream raises: process_request yields one error event, which
\* process_audio_buffer matches against neither "audio" nor "text", and ends
StreamError(t) ==
  LET tk == tasks[t] IN
  /\ tk.pc \in {"llm_create", "streaming"}
  /\ FinalizeAs(t, Forwarded(t, EngineError), "failed")
  /\ UNCHANGED <<now, inbound, speaking, fixed, drain>>

\* the stream delivers a chunk with delta content: an empty content is skipped;
\* otherwise it is yielded as a text event and, if it holds a boundary character,
\* _tts_stream(text_buffer) is called, which returns at once on blank text and else
\* suspends in run_in_executor. spoken records the texts _tts_stream was called
\* with, in order.
Delta(t, content) ==
  LET tk == tasks[t]
      tb == tk.text_buffer \o content
  IN
  /\ tk.pc = "streaming"
  /\ UNCHANGED <<now, inbound, flags, history, fixed, drain, turns>>
  /\ IF content = <<>>
     THEN /\ tasks' = [tasks EXCEPT ![t] = [tk EXCEPT !.ndeltas = @ + 1]]
          /\ UNCHANGED queue
     ELSE /\ Put(<<TextDelta(t, content)>>)
          /\ tasks' = [tasks EXCEPT ![t] =
               [tk EXCEPT !.ndeltas = @ + 1,
                          !.collected_text = @ \o content,
                          !.events = @ \o Tags(<<TextDelta(t, content)>>),
                          !.text_buffer = IF HasPunct(content) /\ IsBlank(tb)
                                          THEN <<>> ELSE tb,
                          !.spoken = IF HasPunct(content) THEN @ \o tb ELSE @,
                          !.pc = IF HasPunct(content) /\ ~IsBlank(tb)
                                 THEN "tts" ELSE "streaming"]]

\* a chunk of a stream of at most MaxDeltas chunks
StreamChunk(t, content) ==
  /\ tasks[t].ndeltas < MaxDeltas
  /\ Delta(t, content)

\* an announcement of audio with every synthesis response that has some
AudioEventsPerResponse(t, first_audio, n) ==
  (IF n > 0 THEN <<AudioStart(t)>> ELSE <<>>) \o [i \in 1..n |-> AudioChunk(t)]

\* the events of n audio chunks read from one synthesis response: audio_start
\* before the first chunk of the invocation
AudioEvents(t, first_audio, n) ==
  (IF n > 0 /\ first_audio THEN <<AudioStart(t)>> ELSE <<>>)
  \o [i \in 1..n |-> AudioChunk(t)]

\* requests.post returns: the n chunks of response.iter_content are read and
\* forwarded without suspending (n = 0: a status other than 200, or an exception,
\* which _tts_stream absorbs). Then the generator goes back to the stream, or, for
\* the trailing text, ends.
TtsReturn(t, n) ==
  LET tk == tasks[t]
      evs == AudioEvents(t, tk.first_audio, n)
  IN
  /\ tk.pc \in {"tts", "tts_flush"}
  /\ speaking' = IF n > 0 /\ tk.first_audio THEN TRUE ELSE speaking
  /\ UNCHANGED <<now, inbound, fixed, drain>>
  /\ IF tk.pc = "tts"
     THEN /\ Put(evs)
          /\ tasks' = [tasks EXCEPT ![t] =
               [tk EXCEPT !.pc = "streaming", !.text_buffer = <<>>,
                          !.first_audio = IF n > 0 THEN FALSE ELSE @,
                          !.events = @ \o Tags(evs)]]
          /\ UNCHANGED <<processing, history, turns>>
     ELSE Finalize(t, evs)

\* an end of the stream at which the completing pipeline clears speaking itself
StreamEndClearsSpeaking(t) ==
  LET tk == tasks[t] IN
  /\ tk.pc = "streaming"
  /\ UNCHANGED <<now, inbound, fixed, drain>>
  /\ IF ~IsBlank(tk.text_buffer)
     THEN /\ tasks' = [tasks EXCEPT ![t] =
               [tk EXCEPT !.pc = "tts_flush", !.spoken = @ \o tk.text_buffer]]
          /\ UNCHANGED <<flags, history, queue, turns>>
     ELSE /\ Finalize(t, <<>>)
          /\ speaking' = FALSE

\* the stream ends: trailing text that is not blank goes through _tts_stream,
\* else the generator ends
StreamEnd(t) ==
  LET tk == tasks[t] IN
  /\ tk.pc = "streaming"
  /\ UNCHANGED <<now, inbound, speaking, fixed, drain>>
  /\ IF ~IsBlank(tk.text_buffer)
     THEN /\ tasks' = [tasks EXCEPT ![t] =
               [tk EXCEPT !.pc = "tts_flush", !.spoken = @ \o tk.text_buffer]]
          /\ UNCHANGED <<processing, history, queue, turns>>
     ELSE Finalize(t, <<>>)

\* ---------------------------------------------------------- websocket_sender
\* a drain that takes the newest event first
QueueGetNewest(q) == [msg |-> q[Len(q)], rest |-> SubSeq(q, 1, Len(q) - 1)]

\* queue.get(): the oldest event and the rest of the queue
QueueGet(q) == [msg |-> Head(q), rest |-> Tail(q)]

\* msg = await queue.get()
SenderGet ==
  /\ sender_pc = "waiting"
  /\ send_queue # <<>>
  /\ sender_msg' = QueueGet(send_queue).msg
  /\ send_queue' = QueueGet(send_queue).rest
  /\ sender_pc' = "sending"
  /\ UNCHANGED <<now, inbound, flags, history, fixed, tasks, unwritten,
                 inorder, turns>>

\* ws.send_bytes / ws.send_json returns: the event is on the transport
SenderSend ==
  /\ sender_pc = "sending"
  /\ inorder' = (inorder /\ unwritten # <<>> /\ Head(unwritten) = sender_msg)
  /\ unwritten' = IF unwritten # <<>> THEN Tail(unwritten) ELSE unwritten
  /\ sender_msg' = NoEvent
  /\ sender_pc' = "waiting"
  /\ UNCHANGED <<now, inbound, flags, history, fixed, send_queue, tasks, turns>>

\* the send raises (WebSocketDisconnect or another exception): the drain task ends
SenderFail ==
  /\ sender_pc = "sending"
  /\ sender_msg' = NoEvent
  /\ sender_pc' = "exited"
  /\ UNCHANGED <<now, inbound, flags, history, fixed, queue, inorder,
                 tasks, turns>>

\* ------------------------------------------------------- the other session
\* The other session runs the same websocket_endpoint on its own locals: its
\* SessionState, segmenter, queue and engine. Its pipeline is followed to its
\* flags and to the states it enqueues, and its drain task to the event it takes.

\* await send_queue.put(e) on the other session's queue
PeerPut(p, evs) ==
  [p EXCEPT !.send_queue = p.send_queue \o evs]

\* the other session is followed while its drain task keeps up with it, and
\* while its buffer is short of an utterance that is dispatched
PeerQueueOpen == peer.send_queue = <<>>
PeerBufferOpen == SumBytes(peer.buffer) < MIN_BUFFER_SIZE

\* a binary message to the other session: the segmenter
PeerFrame(chunk) ==
  LET rms == calculate_rms(chunk)
      origin == IF peer.silence_start = None THEN now ELSE peer.silence_start
      cleared == [peer EXCEPT !.buffer = <<>>, !.is_speaking = FALSE,
                              !.silence_start = None]
  IN
  /\ peer.loop_pc = "running"
  /\ ~peer.speaking
  /\ IF rms > VOICE_THRESHOLD
     THEN /\ PeerBufferOpen
          /\ peer' = [peer EXCEPT !.is_speaking = TRUE, !.silence_start = None,
                                  !.buffer = Append(peer.buffer, chunk)]
     ELSE /\ rms <= SILENCE_THRESHOLD
          /\ peer.is_speaking
          /\ IF now - origin >= SILENCE_DURATION_LIMIT
             THEN IF SumBytes(peer.buffer) >= MIN_BUFFER_SIZE
                  THEN /\ peer.pc \in {"none", "failed"}
                       /\ peer' = [cleared EXCEPT !.pc = "created"]
                  ELSE peer' = cleared
             ELSE peer' = [peer EXCEPT !.silence_start = origin]
  /\ UNCHANGED own

\* the other session's process_audio_buffer starts: the gate, processing = True,
\* the thinking state
PeerTaskStart ==
  /\ peer.pc = "created"
  /\ IF peer.processing \/ peer.speaking
     THEN peer' = [peer EXCEPT !.pc = "none"]
     ELSE /\ PeerQueueOpen
          /\ peer' = PeerPut([peer EXCEPT !.processing = TRUE,
                                          !.pc = "transcribing"], <<"thinking">>)
  /\ UNCHANGED own

\* an exception that reaches only this session's flags
PeerTaskRaiseShared ==
  /\ peer.pc = "transcribing"
  /\ peer' = [peer EXCEPT !.speaking = FALSE, !.processing = FALSE,
                          !.pc = "failed"]
  /\ speaking' = FALSE
  /\ processing' = FALSE
  /\ UNCHANGED <<now, inbound, history, prompt_ok, env, tenant_engine,
                 memory_cache, context_src, queue, drain, tasks, turns>>

\* its transcription raises: the except clause and the finally clause
PeerTaskRaise ==
  /\ peer.pc = "transcribing"
  /\ peer' = [peer EXCEPT !.speaking = FALSE, !.processing = FALSE,
                          !.pc = "failed"]
  /\ UNCHANGED own

\* its first audio event: speaking = True and the audio_start state
PeerTaskAudio ==
  /\ peer.pc = "transcribing"
  /\ PeerQueueOpen
  /\ peer' = PeerPut([peer EXCEPT !.speaking = TRUE, !.pc = "speaking"],
                     <<"audio_start">>)
  /\ UNCHANGED own

\* its stream ends: the audio_end state and the finally clause
PeerTaskEnd ==
  /\ peer.pc = "speaking"
  /\ PeerQueueOpen
  /\ peer' = PeerPut([peer EXCEPT !.processing = FALSE, !.pc = "none"],
                     <<"audio_end">>)
  /\ UNCHANGED own

\* a playback_done message to the other session
PeerPlaybackDone ==
  /\ peer.loop_pc = "running"
  /\ peer.speaking
  /\ PeerQueueOpen
  /\ peer' = PeerPut([peer EXCEPT !.speaking = FALSE], <<"listening">>)
  /\ UNCHANGED own

\* the other session's drain task takes an event and writes it
PeerSend ==
  /\ peer.loop_pc = "running"
  /\ peer.send_queue # <<>>
  /\ peer' = [peer EXCEPT !.send_queue = Tail(peer.send_queue)]
  /\ UNCHANGED own

\* the other session's client disconnects: its loop ends
PeerDisconnect ==
  /\ peer.loop_pc = "running"
  /\ peer' = [peer EXCEPT !.loop_pc = "closed"]
  /\ UNCHANGED own

\* The context of a session is the dict get_user_context returned. When it came
\* from the store or from the cache it is the very dict stored under the user's
\* key in _memory_cache (`self._memory_cache[cache_key] = data; return data`,
\* `self._memory_cache.get(...)`), until a later call stores another dict there.
Aliased == context_src \in {"store", "cache"} /\ ~peer.entry

\* the entry under the user's key as it is now: this session's context when the
\* two are one dict, else what memory_cache recorded
CacheEntry == IF Aliased THEN Dict(TRUE, history) ELSE memory_cache

\* the history the entry under the user's key holds
CacheHistory == CacheEntry.history

\* which dict a call of get_user_context for the same key returns to the other
\* session, by where the call took it from
PeerContext(from) == IF from = "cache" /\ Aliased THEN "shared" ELSE "own"

\* the other session connects for the same tenant and user while this one is
\* running: `context = await memory_manager.get_user_context(tenant_id, user_id)`
PeerGetContext(store, doc) ==
  LET got == get_user_context(store, doc, CacheEntry) IN
  /\ loop_pc = "running"
  /\ peer.context = "none"
  /\ peer' = [peer EXCEPT !.context = PeerContext(got.from),
                          !.entry = (got.from = "store")]
  /\ memory_cache' = IF got.from = "store" THEN got.entry ELSE memory_cache
  /\ UNCHANGED <<now, inbound, flags, history, prompt_ok, env, tenant_engine,
                 context_src, queue, drain, tasks, turns>>

\* ------------------------------------------------------------ specification
\* a 100 ms frame, in bytes (two per sample), and a frame of which two make the
\* shortest utterance that is dispatched
ShortFrame == 2 * (SAMPLE_RATE \div 10)
HalfFrame == MIN_BUFFER_SIZE \div 2

Quiet == Frame(QuietAmp, ShortFrame)
Mid == Frame(MidAmp, ShortFrame)
Loud == Frame(LoudAmp, ShortFrame)
LoudHalf == Frame(LoudAmp, HalfFrame)

\* one frame that fills the minimum buffer
LoudFull == Frame(LoudAmp, MIN_BUFFER_SIZE)

Empty == <<>>
Blank == <<" ">>
Said == <<"a">>
Sentence == <<"b", ".">>
Word == <<"a">>
Break == <<"\n">>

TaskStep(t, transcripts, deltas) ==
  \/ TaskStart(t)
  \/ TranscribeRaise(t)
  \/ \E text \in transcripts : TranscribeReturn(t, text)
  \/ LlmCreateReturn(t)
  \/ StreamError(t)
  \/ \E content \in deltas : StreamChunk(t, content)
  \/ \E n \in 0..MaxChunks : TtsReturn(t, n)
  \/ StreamEnd(t)

\* a frame arrives; the model explores buffers of up to MaxBuf frames
FrameArrives(chunk) ==
  /\ calculate_rms(chunk) > VOICE_THRESHOLD /\ MicOpen => Len(buffer) < MaxBuf
  /\ RecvFrame(chunk)
  /\ UNCHANGED fed

\* the clock advances by tick, up to horizon
Clock(tick, horizon) ==
  /\ now + tick <= horizon
  /\ Tick(tick)

\* a session while its connection is up, on the given inputs
Session(frames, kinds, transcripts, deltas, tick, horizon) ==
  \/ Clock(tick, horizon)
  \/ \E chunk \in frames : FrameArrives(chunk)
  \/ \E kind \in kinds : RecvText(kind)
  \/ \E t \in Slots : TaskStep(t, transcripts, deltas)
  \/ SenderGet
  \/ SenderSend

\* the clock of the round-trip scenario: one frame's duration, in ms
RTFrameMs == (1000 * (ShortFrame \div 2)) \div SAMPLE_RATE

\* the frame of the scenario that follows i frames: RTLoud loud ones, then quiet ones
RTFrame(i) == IF i < RTLoud THEN Loud ELSE Quiet

\* the next frame of the scenario arrives, in real time
RTArrive ==
  /\ fed < RTLoud + RTQuiet
  /\ now = RTFrameMs * fed
  /\ RecvFrame(RTFrame(fed))
  /\ fed' = fed + 1

\* the time of one frame passes
RTWait ==
  /\ fed < RTLoud + RTQuiet
  /\ now < RTFrameMs * fed
  /\ Tick(RTFrameMs)

\* a session on loud and quiet frames, with the keepalive
Next ==
  Session({Quiet, LoudHalf}, {"playback_done", "ping"}, {Blank, Said},
          {Word, Sentence}, TickMs, MaxTime)

Spec == Init /\ [][Next]_vars

\* a session on frames of every loudness class
NextSeg ==
  Session({Quiet, Mid, LoudHalf}, {"playback_done"}, {Said}, {Sentence},
          TickMs, MaxTime)

SpecSeg == Init /\ [][NextSeg]_vars

\* the round-trip scenario, with the pipeline the dispatched utterance starts
NextRT ==
  \/ RTArrive
  \/ RTWait
  \/ \E t \in Slots : TaskStep(t, {Said}, {Sentence})
  \/ SenderGet
  \/ SenderSend

SpecRT == Init /\ [][NextRT]_vars

\* a frame from a client that talks in turns: it sends audio only while no
\* invocation is pending
TurnFrame(chunk) ==
  /\ \A t \in Slots : IsVacant(t)
  /\ FrameArrives(chunk)

\* a session of turns, long enough for its history to overflow
NextHist ==
  \/ Clock(SILENCE_DURATION_LIMIT, HistTime)
  \/ \E chunk \in {Quiet, LoudHalf} : TurnFrame(chunk)
  \/ RecvText("playback_done")
  \/ \E t \in Slots : TaskStep(t, {Said}, {Word})
  \/ SenderGet
  \/ SenderSend

SpecHist == Init /\ [][NextHist]_vars

\* a session with time for one boundary, in which every provider call returns or
\* raises and the drain task keeps writing: a task that can take a step again and
\* again takes one
NextFair ==
  Session({Quiet, LoudHalf}, {"playback_done"}, {Blank, Said}, {Sentence},
          SILENCE_DURATION_LIMIT, SILENCE_DURATION_LIMIT)

SpecFair ==
  /\ Init
  /\ [][NextFair]_vars
  /\ \A t \in Slots : SF_vars(TaskStep(t, {Blank, Said}, {Sentence}))
  /\ WF_vars(SenderGet)
  /\ WF_vars(SenderSend)

\* the same session with a client that may disconnect at any moment; the tasks
\* the loop created stay scheduled after the endpoint has returned
NextGone ==
  \/ NextFair
  \/ RecvDisconnect

SpecGone ==
  /\ Init
  /\ [][NextGone]_vars
  /\ \A t \in Slots : SF_vars(TaskStep(t, {Blank, Said}, {Sentence}))
  /\ WF_vars(SenderGet)
  /\ WF_vars(SenderSend)

\* a session of one utterance on a transport that may fail under the drain task
\* while the client is still connected, or be closed by the client
NextLost ==
  \/ Clock(SILENCE_DURATION_LIMIT, SILENCE_DURATION_LIMIT)
  \/ \E chunk \in {Quiet, LoudHalf} : TurnFrame(chunk)
  \/ RecvText("playback_done")
  \/ \E t \in Slots : TaskStep(t, {Said}, {Sentence})
  \/ SenderGet
  \/ SenderSend
  \/ SenderFail
  \/ RecvDisconnect

SpecLost ==
  /\ Init
  /\ [][NextLost]_vars
  /\ \A t \in Slots : SF_vars(TaskStep(t, {Said}, {Sentence}))
  /\ WF_vars(SenderGet)
  /\ WF_vars(SenderSend)

\* a session whose providers return every kind of transcript and may fail
NextErr ==
  Session({Quiet, LoudHalf}, {"playback_done"}, {Empty, Blank, Said},
          {Word, Sentence}, TickMs, MaxTime)

SpecErr == Init /\ [][NextErr]_vars

\* a chunk of a stream of at most LongStream chunks
LongChunk(t, content) ==
  /\ tasks[t].ndeltas < LongStream
  /\ Delta(t, content)

\* a pipeline whose stream and synthesis responses are long: several deltas, with
\* and without boundary characters, and several audio chunks per response
StreamStep(t) ==
  \/ TaskStart(t)
  \/ TranscribeReturn(t, Said)
  \/ LlmCreateReturn(t)
  \/ StreamError(t)
  \/ \E content \in {Word, Sentence, Break} : LongChunk(t, content)
  \/ \E n \in 0..LongRead : TtsReturn(t, n)
  \/ StreamEnd(t)

\* a session of one utterance with a long stream
NextStream ==
  \/ Clock(SILENCE_DURATION_LIMIT, SILENCE_DURATION_LIMIT)
  \/ \E chunk \in {Quiet, LoudHalf} : TurnFrame(chunk)
  \/ RecvText("playback_done")
  \/ \E t \in Slots : StreamStep(t)
  \/ SenderGet
  \/ SenderSend

SpecStream == Init /\ [][NextStream]_vars

\* a pipeline whose transcription provider fails or hears something
SttStep(t) ==
  \/ TaskStart(t)
  \/ \E result \in {ProviderFailure, Heard(Empty), Heard(Blank), Heard(Said)} :
       SttReturn(t, result)
  \/ LlmCreateReturn(t)
  \/ StreamError(t)
  \/ StreamChunk(t, Sentence)
  \/ \E n \in 0..MaxChunks : TtsReturn(t, n)
  \/ StreamEnd(t)

\* a session on such a pipeline
NextStt ==
  \/ Clock(TickMs, MaxTime)
  \/ \E chunk \in {Quiet, LoudHalf} : FrameArrives(chunk)
  \/ RecvText("playback_done")
  \/ \E t \in Slots : SttStep(t)
  \/ SenderGet
  \/ SenderSend

SpecStt == Init /\ [][NextStt]_vars

\* the client's acknowledgement: playback_done once the audio_end that closes a
\* spoken response is on the transport
ClientAck ==
  /\ speaking
  /\ ~processing
  /\ \A i \in 1..Len(unwritten) : unwritten[i].type # "audio_end"
  /\ RecvText("playback_done")

\* a session of several turns whose provider calls return and whose client
\* acknowledges every spoken response (and may send playback_done at other times)
\* and whose event loop is not held up: asyncio.create_task schedules the first
\* step of process_audio_buffer with call_soon, so the task has taken it when the
\* receive loop next waits for a message, well before a silence limit has passed
PromptClock ==
  /\ \A t \in Slots : tasks[t].pc # "created"
  /\ Clock(SILENCE_DURATION_LIMIT, MaxTime)

NextIdle ==
  \/ PromptClock
  \/ \E chunk \in {Quiet, LoudHalf} : FrameArrives(chunk)
  \/ RecvText("playback_done")
  \/ \E t \in Slots : TaskStep(t, {Blank, Said}, {Sentence})
  \/ SenderGet
  \/ SenderSend

SpecIdle ==
  /\ Init
  /\ [][NextIdle]_vars
  /\ \A t \in Slots : SF_vars(TaskStep(t, {Blank, Said}, {Sentence}))
  /\ WF_vars(SenderGet)
  /\ WF_vars(SenderSend)
  /\ WF_vars(ClientAck)

\* the invocation of slot t has enqueued audio_start
Started(t) == \E i \in 1..Len(tasks[t].events) : tasks[t].events[i] = "audio_start"

\* some invocation of the session has produced audio and ended
Played == \E t \in Slots : tasks[t].pc = "done" /\ Started(t)

\* a frame the client sends before any response has started to play
EarlierFrame(chunk) ==
  /\ \A t \in Slots : ~Started(t)
  /\ FrameArrives(chunk)

\* a frame the client sends after it has played a response and acknowledged it
LaterFrame(chunk) ==
  /\ Played
  /\ ~speaking
  /\ FrameArrives(chunk)

\* a session whose client marks its frames: half-size loud frames before the
\* first response plays, full-size ones after it has acknowledged the playback
NextCarry ==
  \/ Clock(SILENCE_DURATION_LIMIT, MaxTime)
  \/ \E chunk \in {Quiet, LoudHalf} : EarlierFrame(chunk)
  \/ \E chunk \in {Quiet, LoudFull} : LaterFrame(chunk)
  \/ ClientAck
  \/ \E t \in Slots : TaskStep(t, {Said}, {Sentence})
  \/ SenderGet
  \/ SenderSend

SpecCarry == Init /\ [][NextCarry]_vars

\* a session on loud frames of two sizes, with quiet and middle ones between
\* them; the invocations it dispatches are followed to the transcript, which
\* is blank
NextOrder ==
  \/ Clock(SILENCE_DURATION_LIMIT, MaxTime)
  \/ \E chunk \in {Quiet, Mid, Loud, LoudFull} : FrameArrives(chunk)
  \/ \E t \in Slots : TaskStart(t)
  \/ \E t \in Slots : TranscribeReturn(t, Blank)
  \/ SenderGet
  \/ SenderSend

SpecOrder == Init /\ [][NextOrder]_vars

\* what a connection may find: a document is read only from a store that has one
Environments ==
  { e \in [db : {"found", "missing", "unreadable"},
           default_db : {"found", "missing"},
           shape : {"mapping", "other"},
           key : BOOLEAN,
           store : {"unavailable", "exists", "absent", "fails"},
           doc : Documents] :
      e.store # "exists" => e.doc = NoneValue }

\* a connection that was just accepted: nothing of the session exists yet, and
\* the cache may hold an entry for the user from an earlier session
InitConnect ==
  /\ now = 0
  /\ loop_pc = "connecting"
  /\ env \in Environments
  /\ tenant_engine = "none"
  /\ memory_cache \in {NoEntry, Dict(TRUE, Remembered)}
  /\ context_src = "none"
  /\ peer = PeerInit
  /\ buffer = <<>>
  /\ silence_start = None
  /\ is_speaking = FALSE
  /\ processing = FALSE
  /\ speaking = FALSE
  /\ history = <<>>
  /\ prompt_ok \in BOOLEAN
  /\ send_queue = <<>>
  /\ sender_pc = "none"
  /\ sender_msg = NoEvent
  /\ tasks = [t \in Slots |-> FreeTask]
  /\ unwritten = <<>>
  /\ inorder = TRUE
  /\ turns = 0
  /\ last = [op |-> "init", arg |-> 0, note |-> "", seq |-> 0]
  /\ quiet_since = None
  /\ fed = 0

\* a connection from its acceptance on: set-up, then text messages and the
\* disconnect
NextConnect ==
  \/ Connect
  \/ \E kind \in {"ping", "playback_done"} : RecvText(kind)
  \/ SenderGet
  \/ SenderSend
  \/ RecvDisconnect

SpecConnect == InitConnect /\ [][NextConnect]_vars

\* a frame from the other session's client, which talks in turns too
PeerTurnFrame(chunk) ==
  /\ peer.pc \in {"none", "failed"}
  /\ PeerFrame(chunk)

\* two sessions of one process, with time for one boundary each
NextPeers ==
  \/ Clock(SILENCE_DURATION_LIMIT, SILENCE_DURATION_LIMIT)
  \/ \E chunk \in {Quiet, LoudHalf} : TurnFrame(chunk)
  \/ RecvText("playback_done")
  \/ \E t \in Slots : TaskStep(t, {Said}, {Word})
  \/ SenderGet
  \/ SenderSend
  \/ RecvDisconnect
  \/ \E chunk \in {Quiet, LoudHalf} : PeerTurnFrame(chunk)
  \/ PeerTaskStart
  \/ PeerTaskRaise
  \/ PeerTaskAudio
  \/ PeerTaskEnd
  \/ PeerPlaybackDone
  \/ PeerSend
  \/ PeerDisconnect

SpecPeers == Init /\ [][NextPeers]_vars

\* a connection of a tenant whose engine loads, in every state of the context
\* store and of the cache
InitShared ==
  /\ InitConnect
  /\ env.db = "found" /\ env.default_db = "found"
  /\ env.shape = "mapping" /\ env.key

\* the session connects and takes one turn; the other session connects for the
\* same user in the meantime
NextShared ==
  \/ Connect
  \/ \E store \in {"unavailable", "exists", "absent", "fails"} :
       \E doc \in Documents :
         (store # "exists" => doc = NoneValue) /\ PeerGetContext(store, doc)
  \/ Clock(SILENCE_DURATION_LIMIT, SILENCE_DURATION_LIMIT)
  \/ \E chunk \in {Quiet, LoudHalf} : TurnFrame(chunk)
  \/ RecvText("playback_done")
  \/ \E t \in Slots : TaskStep(t, {Said}, {Word})
  \/ SenderGet
  \/ SenderSend

SpecShared == InitShared /\ [][NextShared]_vars

\* a pipeline that ends in every way: at the gate, by an exception, on a blank
\* transcript, on a failed generation, or after a stream of several deltas
AppendStep(t) ==
  \/ TaskStart(t)
  \/ TranscribeRaise(t)
  \/ \E text \in {Blank, Said} : TranscribeReturn(t, text)
  \/ LlmCreateReturn(t)
  \/ StreamError(t)
  \/ \E content \in {Word, Sentence} : LongChunk(t, content)
  \/ TtsReturn(t, 1)
  \/ StreamEnd(t)

\* a session of two silence limits on such a pipeline, whose client acknowledges
\* the responses it has played
NextAppend ==
  \/ PromptClock
  \/ \E chunk \in {Quiet, LoudHalf} : FrameArrives(chunk)
  \/ ClientAck
  \/ \E t \in Slots : AppendStep(t)
  \/ SenderGet
  \/ SenderSend

SpecAppend == Init /\ [][NextAppend]_vars

\* --------------------------------------------------------------- properties
\* an invocation past its gate: from processing = True to the end of the task
InFlight(t) == tasks[t].pc \notin {"free", "created", "done"}

\* the step is the receive loop handling an inbound message
Handled == last' # last

\* the step creates the task of slot t
TaskCreated(t) == tasks[t].pc # "created" /\ tasks'[t].pc = "created"

\* the step is the segmenter reaching a boundary
Boundary == Handled /\ last'.note \in {"dispatch", "discard"}

\* C1: at most one process_audio_buffer invocation is past its gate at any time,
\* and while one is, processing is set; an invocation whose first step finds
\* processing or speaking set ends there, having enqueued nothing, without reaching
\* transcription or generation.
C1_OnePastGate ==
  [][ /\ Cardinality({t \in Slots : InFlight(t)'}) <= 1
      /\ \A t \in Slots : InFlight(t)' => processing'
      /\ \A t \in Slots :
           (tasks[t].pc = "created" /\ tasks'[t] # tasks[t] /\ (processing \/ speaking))
           => /\ tasks'[t].pc = "done"
              /\ tasks'[t].outcome = "rejected"
              /\ tasks'[t].events = <<>>
              /\ UNCHANGED <<send_queue, processing>> ]_vars

\* one invocation is past its gate while another has been turned away at the gate
C1_Witness ==
  \E t, u \in Slots : InFlight(t) /\ tasks[u].pc = "done" /\ tasks[u].outcome = "rejected"

\* C2: a binary frame handled while speaking is set changes neither the buffer nor
\* is_speaking nor silence_start, creates no task and enqueues nothing, whatever
\* its loudness.
C2_DroppedWhileSpeaking ==
  [][ (Handled /\ last'.op = "frame" /\ speaking)
      => UNCHANGED <<buffer, is_speaking, silence_start, tasks, send_queue, unwritten>>
    ]_vars

\* a loud frame was handled while speaking, with an utterance under way
C2_Witness ==
  /\ speaking
  /\ last.op = "frame" /\ last.note = "dropped" /\ last.arg > VOICE_THRESHOLD
  /\ is_speaking /\ buffer # <<>>

\* C3: a boundary (dispatch or discard) occurs only when the frames the segmenter
\* has seen since the last one above SILENCE_THRESHOLD have been at or below it for
\* at least SILENCE_DURATION_LIMIT.
C3_NoPrematureBoundary ==
  [][ Boundary
      => (quiet_since' # None /\ now' - quiet_since' >= SILENCE_DURATION_LIMIT) ]_vars

\* C4: a boundary empties the buffer; with fewer than MIN_BUFFER_SIZE bytes
\* buffered it creates no task, and a task is created only at a boundary whose
\* buffer holds at least MIN_BUFFER_SIZE bytes, which the task receives.
C4_ShortUtteranceDiscarded ==
  [][ /\ Boundary
         => /\ buffer' = <<>>
            /\ SumBytes(buffer) < MIN_BUFFER_SIZE => tasks' = tasks
            /\ SumBytes(buffer) >= MIN_BUFFER_SIZE
               => \E t \in Slots : TaskCreated(t) /\ tasks'[t].audio = buffer
      /\ \A t \in Slots :
           TaskCreated(t) => Boundary /\ SumBytes(buffer) >= MIN_BUFFER_SIZE ]_vars

\* a boundary discarded a short utterance and no task exists
C4_Witness ==
  /\ last.note = "discard"
  /\ buffer = <<>> /\ ~is_speaking
  /\ \A t \in Slots : tasks[t].pc = "free"

\* the frames of the scenario received before the one that is the first quiet
\* frame at least SILENCE_DURATION_LIMIT after the first quiet frame
RTBoundaryAt == RTLoud + ((SILENCE_DURATION_LIMIT + RTFrameMs - 1) \div RTFrameMs)

\* C5: in the round-trip scenario the only boundary is at the first quiet frame
\* received at least SILENCE_DURATION_LIMIT after the first quiet frame; it
\* dispatches the loud frames, and no other frame creates a task or resets the
\* segmenter.
C5_RoundTrip ==
  [][ /\ Boundary => fed = RTBoundaryAt
      /\ (fed = RTBoundaryAt /\ fed' # fed)
         => /\ last'.note = "dispatch"
            /\ \E t \in Slots :
                 TaskCreated(t) /\ tasks'[t].audio = [i \in 1..RTLoud |-> Loud]
      /\ \A t \in Slots : TaskCreated(t) => fed = RTBoundaryAt ]_vars

\* the whole scenario was received and one task was created in it
C5_Witness ==
  /\ fed = RTLoud + RTQuiet
  /\ Cardinality({t \in Slots : tasks[t].pc # "free"}) = 1
  /\ buffer = <<>> /\ ~is_speaking

\* C6: history holds at most HISTORY_KEEP entries, min(2N, HISTORY_KEEP) after N
\* completed turns, and a turn appends its user and its assistant entry to the
\* newest entries of the history before it.
C6_HistoryBound ==
  /\ [](/\ Len(history) <= HISTORY_KEEP
        /\ turns < MaxTurns => Len(history) = Min(2 * turns, HISTORY_KEEP))
  /\ [][ (turns' # turns \/ history' # history)
         => LET n == Len(history')
                kept == n - 2
            IN /\ turns' = Min(turns + 1, MaxTurns)
               /\ n = Min(Len(history) + 2, HISTORY_KEEP)
               /\ \E t \in Slots :
                    /\ InFlight(t)
                    /\ history'[n - 1] = Turn("user", tasks[t].text)
                    /\ history'[n] = Turn("assistant", tasks[t].collected_text)
               /\ \A i \in 1..kept :
                    history'[i] = history[Len(history) - kept + i] ]_vars

\* four turns completed, with answers that differ, and the history is full
C6_Witness ==
  /\ turns = 4
  /\ Len(history) = HISTORY_KEEP
  /\ history[2].content # history[4].content

\* the events of one invocation in the order of the contract
Ordered(e) ==
  /\ Len(e) >= 2
  /\ e[1] = "thinking"
  /\ \/ e = <<"thinking", "listening">>
     \/ /\ e[2] = "user_text"
        /\ e[Len(e)] = "audio_end"
        /\ \A i \in 3..(Len(e) - 1) : e[i] \in {"text", "audio_start", "bytes"}

\* C7: the events an invocation that passed its gate has enqueued when it ends are
\* state(thinking), then either state(listening) alone or user_text, text /
\* audio_start / audio chunk events and finally audio_end.
C7_EventOrder ==
  \A t \in Slots :
    (tasks[t].pc = "done" /\ tasks[t].outcome # "rejected") => Ordered(tasks[t].events)

\* C8: every write to the transport was the oldest event enqueued and not yet
\* written, and the events not yet written are the one the drain task holds
\* followed by the queue: what was written is a prefix of what was enqueued.
C8_DrainInOrder ==
  /\ inorder
  /\ unwritten = (IF sender_pc = "sending" THEN <<sender_msg>> ELSE <<>>) \o send_queue

\* a completed turn and a control message have had all their events written
C8_Witness ==
  /\ \E t \in Slots : tasks[t].pc = "done" /\ tasks[t].outcome = "completed"
  /\ last.op = "text"
  /\ unwritten = <<>> /\ sender_pc = "waiting"

\* C9: the receive loop handling a ping appends exactly one pong to the queue and
\* changes neither processing nor speaking nor the segmenter, nor any task.
C9_PingPong ==
  [][ (Handled /\ last'.op = "text" /\ last'.note = "ping")
      => /\ send_queue' = Append(send_queue, Ev("pong", "", <<>>, 0))
         /\ unwritten' = Append(unwritten, Ev("pong", "", <<>>, 0))
         /\ UNCHANGED <<processing, speaking, segmenter, tasks, history>> ]_vars

\* a ping was answered while a pipeline was running and its audio playing
C9_Witness ==
  /\ last.op = "text" /\ last.note = "ping"
  /\ processing /\ speaking
  /\ send_queue # <<>> /\ send_queue[Len(send_queue)].type = "pong"

\* C10: an invocation past its gate eventually ends, and whenever no invocation
\* is past its gate processing is clear, however the last one ended.
C10_ProcessingCleared ==
  /\ \A t \in Slots : InFlight(t) ~> ~InFlight(t)
  /\ [](( \A t \in Slots : ~InFlight(t)) => ~processing)

\* an invocation ended by an exception and processing is clear
C10_Witness ==
  /\ \E t \in Slots : tasks[t].pc = "done" /\ tasks[t].outcome = "error"
  /\ ~processing
  /\ \A t \in Slots : ~InFlight(t)

\* C11: an invocation that enqueued user_text has enqueued audio_end as its last
\* event when it ends, however it ends.
C11_AudioEndAlways ==
  \A t \in Slots :
    (tasks[t].pc = "done" /\ \E i \in 1..Len(tasks[t].events) :
                               tasks[t].events[i] = "user_text")
    => tasks[t].events[Len(tasks[t].events)] = "audio_end"

\* a text of spaces and line ends only, the empty text included
AllSpace(text) == \A i \in 1..Len(text) : text[i] \in {" ", "\n"}

\* C12: an invocation that ends on its transcript has enqueued state(listening)
\* after state(thinking) and nothing else, clears processing and leaves speaking
\* and history unchanged; and no empty or whitespace-only transcript gets further:
\* none is enqueued as user_text, passed to the engine or entered in history.
C12_EmptyTranscript ==
  /\ [][ \A t \in Slots :
           (tasks[t].pc = "transcribing" /\ tasks'[t].pc = "done"
            /\ tasks'[t].outcome = "empty")
           => /\ ~processing'
              /\ send_queue' = Append(send_queue, Listening(t))
              /\ tasks'[t].events = <<"thinking", "listening">>
              /\ UNCHANGED <<speaking, history, turns>> ]_vars
  /\ [](/\ \A i \in 1..Len(unwritten) :
             unwritten[i].type = "user_text" => ~AllSpace(unwritten[i].content)
        /\ \A t \in Slots :
             tasks[t].pc \in {"llm_create", "streaming", "tts", "tts_flush"}
             => ~AllSpace(tasks[t].text)
        /\ \A i \in 1..Len(history) :
             history[i].role = "user" => ~AllSpace(history[i].content))

\* an invocation ended on a blank transcript after an earlier turn had completed
C12_Witness ==
  /\ \E t \in Slots : tasks[t].pc = "done" /\ tasks[t].outcome = "empty"
  /\ ~processing
  /\ history # <<>>

\* the receive loop handles a playback_done message in this step
PlaybackDoneHandled == Handled /\ last'.op = "text" /\ last'.note = "playback_done"

\* C13: every step in which speaking goes from true to false is the handling of a
\* playback_done message; an invocation that ends, on completion or otherwise,
\* leaves speaking as it is.
C13_ClearedByPlaybackDone ==
  [][ /\ (speaking /\ ~speaking') => PlaybackDoneHandled
      /\ \A t \in Slots :
           (InFlight(t) /\ tasks'[t].pc = "done" /\ speaking) => speaking' ]_vars

\* a pipeline completed after producing audio, and speaking is still set
C13_Witness ==
  /\ speaking /\ ~processing
  /\ \E t \in Slots :
       /\ tasks[t].pc = "done" /\ tasks[t].outcome = "completed"
       /\ \E i \in 1..Len(tasks[t].events) : tasks[t].events[i] = "audio_start"

\* the events of the invocation of slot t include audio_start
HasAudio(t) == \E i \in 1..Len(tasks[t].events) : tasks[t].events[i] = "audio_start"

\* C14: handling playback_done clears speaking and enqueues state(listening); the
\* step in which an invocation enqueues audio_start sets speaking; from then on,
\* until a playback_done is handled, speaking stays set, the buffer does not
\* change and no task is created; and with speaking clear a loud frame is
\* buffered again.
C14_PlaybackDoneReopens ==
  [][ /\ PlaybackDoneHandled
         => /\ ~speaking'
            /\ send_queue' = Append(send_queue, Ev("state", "listening", <<>>, 0))
      /\ \A t \in Slots : (~HasAudio(t) /\ HasAudio(t)') => speaking'
      /\ (speaking /\ ~PlaybackDoneHandled)
         => /\ speaking'
            /\ buffer' = buffer
            /\ \A t \in Slots : ~TaskCreated(t)
      /\ (Handled /\ last'.op = "frame" /\ ~speaking /\ last'.arg > VOICE_THRESHOLD)
         => /\ Len(buffer') = Len(buffer) + 1
            /\ is_speaking' ]_vars

\* after a turn that produced audio and the playback_done that followed its
\* audio_start, a frame was buffered
C14_Witness ==
  /\ ~speaking
  /\ last.op = "frame" /\ last.note = "buffered"
  /\ \E t \in Slots :
       tasks[t].pc = "done" /\ tasks[t].outcome = "completed" /\ HasAudio(t)

\* the invocation of slot t ends in this step after an exception was raised in it:
\* in transcription or prompt building (outcome error) or in the provider call or
\* its stream (outcome failed)
EndsByException(t) ==
  InFlight(t) /\ tasks'[t].pc = "done" /\ tasks'[t].outcome \in {"error", "failed"}

\* C15: when an invocation in which an exception was raised ends, speaking and
\* processing are both false.
C15_FlagsClearedOnException ==
  [][ \A t \in Slots : EndsByException(t) => (~speaking' /\ ~processing') ]_vars

\* C16: a failure of the generation provider's call on an attempt before the last
\* allowed one is followed by another attempt: the invocation is back at the
\* provider call instead of ending generation.
C16_RetryAfterFailure ==
  [][ \A t \in Slots :
        (tasks[t].pc = "llm_create" /\ tasks'[t].pc # "streaming"
         /\ tasks'[t] # tasks[t] /\ Attempt(t) < MaxAttempts)
        => tasks'[t].pc = "llm_create" ]_vars

\* C17: the step in which the generation provider's failure ends generation
\* enqueues exactly one apology (error) event of that invocation.
C17_OneApology ==
  [][ \A t \in Slots :
        (InFlight(t) /\ tasks'[t].pc = "done" /\ tasks'[t].outcome = "failed")
        => Cardinality({i \in (Len(send_queue) + 1)..Len(send_queue') :
                          send_queue'[i].type = "error" /\ send_queue'[i].by = t}) = 1
    ]_vars

\* C18: a connection whose tenant configuration cannot be resolved (no database
\* file for the tenant id, an unreadable one, no credentials) is closed with 4001
\* and gets no engine and no drain task; no session runs on the default tenant's
\* database or on the empty one.
C18_NoSilentFallback ==
  /\ tenant_engine \in {"none", "own"}
  /\ (loop_pc # "connecting" /\ (env.db # "found" \/ ~env.key)
       => loop_pc = "refused" /\ tenant_engine = "none" /\ sender_pc = "none"
          /\ send_queue = <<>>)

\* C20: get_user_context never raises and returns a mapping; when the store is
\* unavailable or the read fails, the session's context is the cached entry for
\* the user if there is one, and otherwise a default context with empty history.
C20_ContextFallback ==
  tenant_engine # "none" =>
    /\ loop_pc # "crashed"
    /\ context_src \in {"store", "cache", "default"}
    /\ env.store \in {"unavailable", "fails"} =>
         /\ memory_cache.type = "dict"
              => context_src = "cache" /\ history = memory_cache.history
         /\ memory_cache = NoEntry
              => context_src = "default" /\ history = <<>>

C20_Witness ==
  /\ loop_pc = "running"
  /\ env.store = "fails"
  /\ context_src = "cache"
  /\ history = Remembered

\* what the claim lists of this session, and of the other one
OwnState ==
  <<processing, speaking, buffer, silence_start, send_queue, loop_pc>>
PeerState ==
  <<peer.processing, peer.speaking, peer.buffer, peer.silence_start,
    peer.send_queue, peer.loop_pc>>

\* the step is one of this session: its receive loop handles a message or ends,
\* one of its pipeline tasks moves, or its drain task does
OwnStep == last' # last \/ tasks' # tasks \/ drain' # drain

\* the step is one of the other session
PeerStep == peer' # peer

\* C19: with two sessions running, no step of one session (an exception in its
\* pipeline, its playback_done and its disconnect included) changes the other's
\* processing flag, speaking flag, buffer, silence timer or outbound queue, or
\* ends the other's receive loop.
C19_SessionsIsolated ==
  [][ /\ OwnStep => PeerState' = PeerState
      /\ PeerStep => OwnState' = OwnState ]_vars

C19_Witness ==
  /\ peer.pc = "failed"
  /\ peer.loop_pc = "closed"
  /\ loop_pc = "running"
  /\ speaking
  /\ send_queue # <<>>

\* how many events of a task's record carry the tag
RECURSIVE Count(_, _)
Count(evs, tag) ==
  IF evs = <<>> THEN 0
  ELSE (IF Head(evs) = tag THEN 1 ELSE 0) + Count(Tail(evs), tag)

\* C21: an invocation enqueues audio_start at most once and before each of its
\* audio chunks; the step that enqueues it sets speaking; and a step of an
\* invocation that has produced no audio leaves speaking as it was.
C21_AudioStartOnce ==
  [][ \A t \in Slots :
        LET evs == tasks'[t].events IN
        /\ Count(evs, "audio_start") <= 1
        /\ \A i \in 1..Len(evs) :
              evs[i] = "bytes" => \E j \in 1..(i - 1) : evs[j] = "audio_start"
        /\ (~HasAudio(t) /\ HasAudio(t)') => speaking'
        /\ (tasks'[t] # tasks[t] /\ ~HasAudio(t)') => speaking' = speaking ]_vars

C21_Witness ==
  \E t \in Slots :
    /\ tasks[t].outcome = "completed"
    /\ Count(tasks[t].events, "audio_start") = 1
    /\ Count(tasks[t].events, "bytes") > LongRead

\* C22: while a stream runs, the texts handed to synthesis, in order, followed by
\* the text still buffered, are the deltas received, in order; the buffered text
\* holds no boundary character (a delta with one is flushed with all that was
\* buffered); a stream that ends without error ends with a trailing text flushed
\* or whitespace only; and when audio is enqueued every delta received so far
\* has been enqueued as a text event.
C22_SynthesisComplete ==
  [][ \A t \in Slots :
        LET tk == tasks'[t] IN
        /\ tk.pc = "streaming" =>
              /\ tk.collected_text = tk.spoken \o tk.text_buffer
              /\ \A i \in 1..Len(tk.text_buffer) : tk.text_buffer[i] \notin Punct
        /\ tk.pc \in {"tts", "tts_flush"} =>
              /\ tk.collected_text = tk.spoken
              /\ ~IsBlank(tk.text_buffer)
        /\ (tasks[t].pc = "streaming" /\ tk.outcome = "completed") =>
              IsBlank(tasks[t].text_buffer)
        /\ Count(tk.events, "bytes") > Count(tasks[t].events, "bytes") =>
              /\ tasks[t].pc \in {"tts", "tts_flush"}
              /\ Count(tasks[t].events, "text") = tasks[t].ndeltas ]_vars

C22_Witness ==
  \E t \in Slots :
    /\ tasks[t].pc = "tts_flush"
    /\ Len(tasks[t].spoken) > Len(tasks[t].text_buffer)
    /\ Count(tasks[t].events, "bytes") > 0

\* the audio of the invocation of slot t is still to be transcribed
AwaitsTranscript(t) == tasks[t].pc \in {"created", "transcribing"}

\* C23: a boundary, dispatch or discard, leaves the buffer empty, is_speaking
\* false and silence_start null; a dispatch creates one invocation, whose audio is
\* what the buffer held; and while an invocation's audio is still to be
\* transcribed no step changes it, whatever the loop buffers meanwhile.
C23_BufferHandedOff ==
  [][ /\ Boundary =>
            /\ buffer' = <<>> /\ ~is_speaking' /\ silence_start' = None
            /\ last'.note = "discard" => tasks' = tasks
            /\ last'.note = "dispatch" =>
                  \E t \in Slots :
                    /\ TaskCreated(t)
                    /\ tasks'[t].audio = buffer
                    /\ SumBytes(buffer) >= MIN_BUFFER_SIZE
                    /\ \A u \in Slots \ {t} : tasks'[u] = tasks[u]
      /\ \A t \in Slots :
            AwaitsTranscript(t) /\ AwaitsTranscript(t)' /\ ~TaskCreated(t)
              => tasks'[t].audio = tasks[t].audio ]_vars

C23_Witness ==
  \E t \in Slots :
    /\ tasks[t].pc = "transcribing"
    /\ tasks[t].audio # <<>>
    /\ buffer # <<>>
    /\ buffer # tasks[t].audio

\* C24: a frame above the onset threshold, received while the agent is not
\* speaking, sets is_speaking, clears silence_start and is appended to the buffer;
\* so a boundary is reached only when the frames since the last loud one have
\* been silent for the full limit, counted from the first of them.
C24_LoudFrameRestartsSilence ==
  [][ /\ (Handled /\ last'.op = "frame" /\ last'.arg > VOICE_THRESHOLD /\ ~speaking)
          => /\ is_speaking'
             /\ silence_start' = None
             /\ Len(buffer') = Len(buffer) + 1
             /\ SubSeq(buffer', 1, Len(buffer)) = buffer
             /\ calculate_rms(buffer'[Len(buffer')]) = last'.arg
             /\ quiet_since' = None
      /\ Boundary
          => quiet_since # None /\ now - quiet_since >= SILENCE_DURATION_LIMIT ]_vars

C24_Witness ==
  /\ last.op = "frame"
  /\ last.note = "buffered"
  /\ silence_start = None
  /\ Len(buffer) > 1
  /\ now > 0

\* C25: an utterance whose boundary is reached while processing is set is
\* dropped: when its task runs it ends at the gate, having enqueued nothing, and
\* its audio is never transcribed.
C25_LateUtteranceDropped ==
  [][ \A t \in Slots :
        (tasks[t].pc = "created" /\ tasks[t].late /\ tasks'[t] # tasks[t])
          => /\ tasks'[t].outcome = "rejected"
             /\ tasks'[t].events = <<>>
             /\ UNCHANGED <<send_queue, flags>> ]_vars

\* s is a prefix of q
IsPrefix(s, q) == Len(s) <= Len(q) /\ SubSeq(q, 1, Len(s)) = s

\* C26: the disconnect ends the drain task and touches no pipeline task; after
\* it nothing is taken from the queue or written, so what is enqueued later stays
\* undelivered; an invocation in flight at the disconnect still runs to its end,
\* and the step that ends it clears processing.
C26_TeardownLeavesPipeline ==
  /\ [][ /\ ((loop_pc = "running" /\ loop_pc' = "closed") =>
               (/\ sender_pc' = "exited"
                /\ UNCHANGED <<tasks, flags, history, send_queue, unwritten>>))
         /\ (loop_pc = "closed" =>
               (/\ sender_pc' = "exited"
                /\ IsPrefix(send_queue, send_queue')
                /\ IsPrefix(unwritten, unwritten')))
         /\ \A t \in Slots :
               (loop_pc = "closed" /\ InFlight(t) /\ ~InFlight(t)') => ~processing' ]_vars
  /\ \A t \in Slots : (loop_pc = "closed" /\ InFlight(t)) ~> ~InFlight(t)

C26_Witness ==
  /\ loop_pc = "closed"
  /\ \E t \in Slots : tasks[t].pc = "done" /\ tasks[t].outcome = "completed"
  /\ ~processing
  /\ history # <<>>
  /\ Len(send_queue) > MaxChunks + 2

\* the step ends the drain task
DrainExits == sender_pc # "exited" /\ sender_pc' = "exited"

\* C27: the exit of the drain task, by a send error or by the teardown, changes
\* no task, no flag and nothing of the segmenter, and a send error leaves the
\* receive loop running; afterwards a playback_done is still answered on the
\* queue, and an invocation in flight still reaches its end: its puts succeed.
C27_DrainExitHarmless ==
  /\ [][ /\ DrainExits =>
               (/\ UNCHANGED <<tasks, flags, history, segmenter, send_queue>>
                /\ loop_pc' = loop_pc \/ last'.op = "disconnect")
         /\ (sender_pc = "exited" /\ Handled /\ last'.note = "playback_done") =>
               (/\ send_queue' = Append(send_queue, Ev("state", "listening", <<>>, 0))
                /\ loop_pc' = "running") ]_vars
  /\ \A t \in Slots : (sender_pc = "exited" /\ InFlight(t)) ~> ~InFlight(t)

C27_Witness ==
  /\ sender_pc = "exited"
  /\ loop_pc = "running"
  /\ \E t \in Slots : tasks[t].pc = "done" /\ tasks[t].outcome = "completed"
  /\ Len(send_queue) > MaxChunks + 2
  /\ last.note = "playback_done"

\* C28: the receive loop can handle an inbound message while a provider
\* interaction is under way, the reading of a synthesis response included: the
\* audio chunks of a response are not all forwarded in one step of the event
\* loop, in which no message is handled.
C28_LoopNeverStalled ==
  [][ \A t \in Slots :
        Count(tasks'[t].events, "bytes") <= Count(tasks[t].events, "bytes") + 1 ]_vars

\* C29: when the transcription provider fails, the invocation raises nothing:
\* it has enqueued state(thinking), enqueues state(listening) and nothing else,
\* clears processing and ends, leaving speaking and the history as they were.
C29_SttFailureAbsorbed ==
  [][ \A t \in Slots :
        SttReturn(t, ProviderFailure) =>
          /\ tasks'[t].pc = "done"
          /\ tasks'[t].outcome = "empty"
          /\ tasks'[t].events = <<"thinking", "listening">>
          /\ send_queue' = Append(send_queue, Listening(t))
          /\ ~processing'
          /\ ~speaking'
          /\ UNCHANGED <<speaking, history, turns>> ]_vars

C29_Witness ==
  \E t \in Slots :
    /\ tasks[t].pc = "done"
    /\ tasks[t].outcome = "empty"
    /\ tasks[t].events = <<"thinking", "listening">>
    /\ ~processing
    /\ buffer # <<>>

\* the session is in Idle
Idle == ~processing /\ ~speaking

\* C30: with provider calls that return and a client that acknowledges every
\* spoken response, a session that has left Idle returns to Idle; and an utterance
\* whose boundary is reached in Idle is dispatched into the pipeline: the boundary
\* creates its task on a copy of the buffer, and the task takes its first step,
\* passes the gate and goes on to transcription.
C30_IdleRegained ==
  /\ ~Idle ~> Idle
  /\ \A t \in Slots : (tasks[t].pc = "created" /\ ~tasks[t].late) ~> InFlight(t)
  /\ [][ /\ (Boundary /\ Idle /\ Dispatchable)
            => \E t \in Slots : TaskCreated(t) /\ tasks'[t].audio = buffer
         /\ \A t \in Slots :
              (tasks[t].pc = "created" /\ ~tasks[t].late /\ tasks'[t].pc # "created")
              => tasks'[t].pc = "transcribing" ]_vars

\* a second turn has gone through Thinking and Speaking and the session is back
\* in Idle, the client having acknowledged the response
C30_Witness ==
  /\ Idle
  /\ turns >= 2
  /\ last.op = "text" /\ last.note = "playback_done"
  /\ \A t \in Slots : tasks[t].pc = "done" /\ tasks[t].outcome = "completed"
  /\ unwritten = <<>>

\* the step ends the invocation of slot t at its gate
Rejected(t) ==
  /\ tasks[t].pc = "created"
  /\ tasks'[t].pc = "done"
  /\ tasks'[t].outcome = "rejected"

\* C31: an invocation rejected at the gate leaves processing, speaking and the
\* history as they were and enqueues nothing; the invocation in flight keeps
\* its processing flag.
C31_RejectionChangesNothing ==
  [][ \A t \in Slots :
        Rejected(t) =>
          /\ UNCHANGED <<processing, speaking, history, send_queue, unwritten, turns>>
          /\ tasks'[t].events = <<>>
          /\ \A u \in Slots : InFlight(u) => (InFlight(u)' /\ processing') ]_vars

\* an invocation was rejected while another one is in flight and holds processing
C31_Witness ==
  /\ processing
  /\ \E t \in Slots : tasks[t].pc = "done" /\ tasks[t].outcome = "rejected"
  /\ \E u \in Slots : InFlight(u)

\* the invocation of slot t has enqueued audio_start and not yet audio_end
Voicing(t) == InFlight(t) /\ Count(tasks[t].events, "audio_start") > 0

\* C32: from the audio_start of a turn to its audio_end speaking is set: it is
\* set in every step that enqueues an audio chunk, whatever the client sent in
\* between, and no frame is buffered while the turn produces audio.
C32_SpeakingWhileAudio ==
  [][ \A t \in Slots :
        /\ Voicing(t)' => speaking'
        /\ (Count(tasks'[t].events, "bytes") > Count(tasks[t].events, "bytes"))
           => speaking'
        /\ (Voicing(t) /\ Handled) => last'.note # "buffered" ]_vars

\* C33: an utterance dispatched after a playback period holds only frames that
\* were received after speaking was cleared, and when speaking is cleared no
\* frame is buffered and no silence timer is running from before.
C33_NothingCarriedAcross ==
  [][ /\ \A t \in Slots :
           (TaskCreated(t) /\ Played)
           => \A i \in 1..Len(tasks'[t].audio) : tasks'[t].audio[i] = LoudFull
      /\ (speaking /\ ~speaking')
         => (buffer' = <<>> /\ silence_start' = None /\ ~is_speaking') ]_vars

\* the step is the receive loop handling a frame with the mic open
FrameSeen == Handled /\ last'.op = "frame" /\ MicOpen

\* C34: a frame above SILENCE_THRESHOLD and at most VOICE_THRESHOLD, and a frame
\* at or below SILENCE_THRESHOLD received while is_speaking is false, leave the
\* buffer, is_speaking and silence_start as they were and create no task.
C34_HysteresisBandIgnored ==
  [][ (FrameSeen /\ last'.arg <= VOICE_THRESHOLD
                 /\ (last'.arg > SILENCE_THRESHOLD \/ ~is_speaking))
      => /\ UNCHANGED <<buffer, is_speaking, silence_start, tasks>>
         /\ last'.note = "ignored" ]_vars

\* a frame of the band was ignored while the silence timer was running
C34_Witness ==
  /\ last.op = "frame" /\ last.note = "ignored"
  /\ last.arg > SILENCE_THRESHOLD /\ last.arg <= VOICE_THRESHOLD
  /\ is_speaking
  /\ silence_start # None
  /\ now > silence_start
  /\ buffer # <<>>

\* C35: the buffer is the frames above VOICE_THRESHOLD accepted since the last
\* boundary, in arrival order: such a frame is appended at the end, any other
\* frame adds nothing, only a boundary empties the buffer, the minimum-size test
\* is on these bytes, and a dispatched invocation is handed exactly this buffer.
C35_UtteranceIsLoudFrames ==
  /\ [](\A i \in 1..Len(buffer) : calculate_rms(buffer[i]) > VOICE_THRESHOLD)
  /\ [][ /\ (FrameSeen /\ last'.arg > VOICE_THRESHOLD)
            => /\ Len(buffer') = Len(buffer) + 1
               /\ SubSeq(buffer', 1, Len(buffer)) = buffer
               /\ calculate_rms(buffer'[Len(buffer')]) = last'.arg
         /\ (FrameSeen /\ last'.arg <= VOICE_THRESHOLD)
            => IF Boundary THEN buffer' = <<>> ELSE buffer' = buffer
         /\ ~FrameSeen => buffer' = buffer
         /\ (Boundary /\ last'.note = "discard") => SumBytes(buffer) < MIN_BUFFER_SIZE
         /\ \A t \in Slots :
              TaskCreated(t) => /\ Boundary
                                /\ last'.note = "dispatch"
                                /\ SumBytes(buffer) >= MIN_BUFFER_SIZE
                                /\ tasks'[t].audio = buffer ]_vars

\* an invocation was handed a short and a full loud frame in the order they came,
\* and the segmenter has ignored a middle frame since
C35_Witness ==
  /\ \E t \in Slots : tasks[t].audio = <<Loud, LoudFull>>
  /\ last.op = "frame" /\ last.note = "ignored"
  /\ buffer = <<LoudFull>>

\* C36: on the queue audio_start and audio_end are balanced: an invocation that
\* has ended enqueued as many audio_end events as audio_start events, at most one
\* of each, audio_start first.
C36_AudioMarkersBalanced ==
  \A t \in Slots :
    tasks[t].pc = "done"
    => /\ Count(tasks[t].events, "audio_start") = Count(tasks[t].events, "audio_end")
       /\ Count(tasks[t].events, "audio_end") <= 1
       /\ Count(tasks[t].events, "audio_end") = 1
          => tasks[t].events[Len(tasks[t].events)] = "audio_end"

\* the step enqueues state(listening)
ListeningEnqueued ==
  /\ Len(send_queue') = Len(send_queue) + 1
  /\ send_queue'[Len(send_queue')].type = "state"
  /\ send_queue'[Len(send_queue')].state = "listening"

\* C37: state(listening) is enqueued only when the session is open for capture:
\* after the step that enqueues it, processing is false and speaking is false.
C37_ListeningMeansOpen ==
  [][ ListeningEnqueued => (~processing' /\ ~speaking') ]_vars

\* C38: a session's context is private to it: the other session, connected for
\* the same tenant and user, never holds the same dict, and a history append of
\* this session leaves the history of the MemoryManager cache entry as it was.
C38_ContextPrivate ==
  /\ [](peer.context # "shared")
  /\ [][ turns' # turns => CacheHistory' = CacheHistory ]_vars

\* the step enqueues one text event of the invocation of slot t
TextEnqueued(t) ==
  /\ Len(send_queue') = Len(send_queue) + 1
  /\ send_queue'[Len(send_queue')].type = "text"
  /\ send_queue'[Len(send_queue')].by = t

\* the step ends the invocation of slot t with the given outcome
EndsAs(t, outcomes) ==
  /\ tasks[t].pc \notin {"free", "done"}
  /\ tasks'[t].pc = "done"
  /\ tasks'[t].outcome \in outcomes

\* C39: the history changes only in the step that ends an invocation which got a
\* non-blank transcript and raised nothing: that step appends the user entry and
\* then the assistant entry, whose content is the text deltas the invocation
\* enqueued, in order (and keeps the newest HISTORY_KEEP entries); an invocation
\* ended at the gate, by a blank transcript or by an exception changes nothing.
C39_HistoryOnlyOnCompletion ==
  /\ [](\A t \in Slots :
          tasks[t].pc \in {"created", "transcribing", "llm_create"}
          => tasks[t].collected_text = <<>>)
  /\ [][ /\ \A t \in Slots :
              /\ (TextEnqueued(t) /\ InFlight(t)')
                 => tasks'[t].collected_text
                      = tasks[t].collected_text \o send_queue'[Len(send_queue')].content
              /\ (InFlight(t) /\ InFlight(t)' /\ ~TextEnqueued(t))
                 => tasks'[t].collected_text = tasks[t].collected_text
              /\ EndsAs(t, {"rejected", "empty", "error"}) => history' = history
              /\ EndsAs(t, {"completed", "failed"})
                 => /\ ~IsBlank(tasks[t].text)
                    /\ history' = LastN(history \o
                                          <<Turn("user", tasks[t].text),
                                            Turn("assistant", tasks[t].collected_text)>>,
                                        HISTORY_KEEP)
         /\ history' # history
            => \E t \in Slots : EndsAs(t, {"completed", "failed"}) ]_vars

\* a turn appended a reply of two deltas, after an invocation that ended by an
\* exception
C39_Witness ==
  /\ Len(history) = 2
  /\ history[2] = Turn("assistant", Word \o Sentence)
  /\ history[1] = Turn("user", Said)
  /\ \E t \in Slots : tasks[t].pc = "done" /\ tasks[t].outcome = "completed"
  /\ \E t \in Slots : tasks[t].pc = "done" /\ tasks[t].outcome = "error"

\* C40: a turn in which the generation provider fails adds nothing to the
\* history: the step that ends such an invocation leaves the history as it was.
C40_FailedTurnNotRemembered ==
  [][ \A t \in Slots : EndsAs(t, {"failed"}) => UNCHANGED <<history, turns>> ]_vars

====
